---- MODULE Spec2Model ----
(***************************************************************************)
(* Interview scheduling of the Nexus ATS: the interview store, the         *)
(* candidate and job collaborators, and the InterviewService handlers      *)
(* (create / get / list / update / delete / stats) with the validation     *)
(* pipeline, the document builder and the conflict detector they call.     *)
(*                                                                         *)
(* Time: an instant is a number of minutes since the epoch (UTC).  A       *)
(* calendar date "YYYY-MM-DD" is a day number, a wall-clock time "HH:MM"   *)
(* is a minute of the day.  tz is the server's offset: local = UTC + tz.   *)
(***************************************************************************)
EXTENDS Integers, Sequences, FiniteSets, TLC

VARIABLES
  store,        \* the interviews collection: sequence of documents, _id = index
  candidates,   \* ids the candidate lookup resolves
  jobs,         \* ids the job lookup resolves
  initialized,  \* InterviewService.initialized
  tz,           \* time-zone offset of the server, minutes east of UTC
  now,          \* the server clock
  resp,         \* the response of the latest completed request
  inflight      \* requests suspended at a store round trip (concurrent runs)

vars == <<store, candidates, jobs, initialized, tz, now, resp, inflight>>

----------------------------------------------------------------------------
(* Bounds of the model *)

MaxInterviews == 2

----------------------------------------------------------------------------
(* Values *)

Undefined == "undefined"          \* an absent string property
Missing == 0 - 1                  \* an absent numeric / date / time property
Malformed == 0 - 2                \* a date or time string the regex rejects
NoList == <<Undefined>>           \* an absent (non-array) interviewers property
NoId == 0                         \* excludeId = null, and an id ObjectId.isValid rejects

MinutesPerDay == 24 * 60

Candidates == {"c1", "c2"}
Jobs == {"j1"}
BadObjectId == "not-an-object-id"
GhostJob == "j0"                  \* a well-formed job id that was never stored
Users == {"u1"}

CandidateRecord(c) ==
  [personalInfo |-> [firstName |-> IF c = "c1" THEN "Ann" ELSE "Bob",
                     lastName  |-> IF c = "c1" THEN "Lee" ELSE "Ray",
                     email     |-> IF c = "c1" THEN "ann@x.io" ELSE "bob@x.io"],
   pipelineInfo |-> [currentStage |-> "interview"]]

JobRecord(j) == [title |-> "Engineer", department |-> "Engineering", status |-> "active"]

FullName(c) == IF c = "c1" THEN "Ann Lee" ELSE "Bob Ray"

INTERVIEW_TYPES == {"screening", "technical", "cultural", "final"}
INTERVIEW_STATUS == {"scheduled", "completed", "cancelled", "rescheduled"}
MEETING_TYPES == {"video", "phone", "in-person"}

DEFAULT_DURATIONS(type) ==
  CASE type = "screening" -> 30
    [] type = "technical" -> 60
    [] type = "cultural"  -> 45
    [] type = "final"     -> 90
    [] OTHER              -> 0      \* undefined (falsy)

ObjectIdIsValid(id) == id \in Candidates \cup Jobs \cup {"c0", "j0"} \cup Users

\* Length of the text a token stands for.
TextLength(s) ==
  CASE s = ""         -> 0
    [] s = "LONG-101" -> 101
    [] s = "LONG-201" -> 201
    [] s = "LONG-2001" -> 2001
    [] OTHER          -> 8

\* input.trim().replace(/\s+/g, ' ')
sanitizeString(input) ==
  CASE input = Undefined   -> ""
    [] input = "  "        -> ""
    [] input = " Ann  Lee " -> "Ann Lee"
    [] OTHER               -> input

\* String.prototype.trim
Trim(s) ==
  CASE s = "  "         -> ""
    [] s = " Ann  Lee " -> "Ann  Lee"
    [] OTHER            -> s

Falsy(s) == s = Undefined \/ s = ""

----------------------------------------------------------------------------
(* Date arithmetic *)

\* new Date("YYYY-MM-DD"): a date-only string is UTC midnight
ParseDateOnly(date) == date * MinutesPerDay

\* new Date("YYYY-MM-DDTHH:MM:00"): a date-time string without zone is local time
ParseLocalDateTime(date, time) == date * MinutesPerDay + time - tz

LocalDay(instant) == (instant + tz) \div MinutesPerDay
LocalMinute(instant) == (instant + tz) % MinutesPerDay
UTCDay(instant) == instant \div MinutesPerDay

\* Date.prototype.setHours(h, m, 0, 0) with h*60+m = minute: local day kept
SetHours(instant, minute) == LocalDay(instant) * MinutesPerDay + minute - tz

combineDateTime(dateString, timeString) ==
  SetHours(ParseDateOnly(dateString), timeString)

----------------------------------------------------------------------------
(* Validation pipeline (interview-validation.js).  Each facet yields the set *)
(* of fields it reports; validateInterviewData stops at the first facet that *)
(* reports anything, because each facet throws.                              *)

BusinessOpen == 8 * 60
BusinessClose == 18 * 60
OneYear == 365 * MinutesPerDay

\* name.trim().toLowerCase()
NameKey(s) ==
  CASE s = "John Doe"  -> "john doe"
    [] s = "JOHN DOE"  -> "john doe"
    [] s = "Jane Smith" -> "jane smith"
    [] OTHER           -> Trim(s)

SeqToSet(q) == {q[i] : i \in DOMAIN q}

validateInterviewBasicInfo(d) ==
  (IF d.candidateId = Undefined \/ ~ObjectIdIsValid(d.candidateId)
     THEN {"candidateId"} ELSE {})
  \cup
  (IF Falsy(d.candidateName) \/ TextLength(Trim(d.candidateName)) < 1
        \/ TextLength(Trim(d.candidateName)) > 100
     THEN {"candidateName"} ELSE {})
  \cup
  (IF d.jobId = Undefined \/ ~ObjectIdIsValid(d.jobId) THEN {"jobId"} ELSE {})
  \cup
  (IF Falsy(d.jobTitle) \/ TextLength(Trim(d.jobTitle)) < 1
        \/ TextLength(Trim(d.jobTitle)) > 100
     THEN {"jobTitle"} ELSE {})
  \cup
  (IF d.type = Undefined \/ d.type \notin INTERVIEW_TYPES THEN {"type"} ELSE {})

\* Variant: 18:00 itself counted as outside business hours.
validateDateTimeConstraints_ClosedAtSix(date, time) ==
  (IF date = Missing \/ date = Malformed THEN {"date"}
   ELSE LET dateObj == SetHours(ParseDateOnly(date), 0)
            today == SetHours(now, 0)
            oneYearFromNow == SetHours(now + OneYear, 0)
        IN  IF dateObj < today \/ dateObj > oneYearFromNow THEN {"date"} ELSE {})
  \cup
  (IF time = Missing \/ time = Malformed THEN {"time"}
   ELSE IF time < BusinessOpen \/ time >= BusinessClose THEN {"time"} ELSE {})
  \cup
  (IF date \notin {Missing, Malformed} /\ time \notin {Missing, Malformed}
        /\ SetHours(ParseDateOnly(date), time) <= now
     THEN {"datetime"} ELSE {})

validateDateTimeConstraints(date, time) ==
  (IF date = Missing \/ date = Malformed THEN {"date"}
   ELSE LET dateObj == SetHours(ParseDateOnly(date), 0)
            today == SetHours(now, 0)
            oneYearFromNow == SetHours(now + OneYear, 0)
        IN  IF dateObj < today \/ dateObj > oneYearFromNow THEN {"date"} ELSE {})
  \cup
  (IF time = Missing \/ time = Malformed THEN {"time"}
   ELSE IF time < BusinessOpen \/ time > BusinessClose THEN {"time"} ELSE {})
  \cup
  (IF date \notin {Missing, Malformed} /\ time \notin {Missing, Malformed}
        /\ SetHours(ParseDateOnly(date), time) <= now
     THEN {"datetime"} ELSE {})

\* Variant: the 15-minute increment rule left out.
validateInterviewDuration_AnyMinute(duration, interviewType) ==
  IF duration # Missing /\ (duration < 15 \/ duration > 480)
    THEN {"duration"} ELSE {}

validateInterviewDuration(duration, interviewType) ==
  IF duration # Missing /\ (duration < 15 \/ duration > 480 \/ duration % 15 # 0)
    THEN {"duration"} ELSE {}

validateInterviewers(interviewers) ==
  IF interviewers = NoList THEN {}
  ELSE (IF Len(interviewers) > 10 THEN {"interviewers"} ELSE {})
       \cup
       {"interviewers[]" : i \in {j \in DOMAIN interviewers :
            TextLength(Trim(interviewers[j])) < 1
            \/ TextLength(Trim(interviewers[j])) > 100}}
       \cup
       (IF Cardinality({NameKey(interviewers[i]) : i \in DOMAIN interviewers})
             # Len(interviewers)
          THEN {"interviewers"} ELSE {})

validateMeetingDetails(meetingDetails) ==
  (IF ~Falsy(meetingDetails.type) /\ meetingDetails.type \notin MEETING_TYPES
     THEN {"meetingType"} ELSE {})
  \cup
  (IF ~Falsy(meetingDetails.link)
        /\ (TextLength(Trim(meetingDetails.link)) > 500
            \/ meetingDetails.link = "not a url")
     THEN {"meetingLink"} ELSE {})
  \cup
  (IF ~Falsy(meetingDetails.location)
        /\ TextLength(Trim(meetingDetails.location)) > 200
     THEN {"location"} ELSE {})
  \cup
  (IF meetingDetails.type = "in-person" /\ Falsy(meetingDetails.location)
     THEN {"location"} ELSE {})

validateInterviewNotes(notes) ==
  IF notes # Undefined /\ TextLength(notes) > 2000 THEN {"notes"} ELSE {}

validateInterviewStatus(status) ==
  IF ~Falsy(status) /\ status \notin INTERVIEW_STATUS THEN {"status"} ELSE {}

\* The fields reported by the ValidationError, {} when the data is valid.
validateInterviewData(d) ==
  LET facets == << validateInterviewBasicInfo(d),
                   validateDateTimeConstraints(d.date, d.time),
                   validateInterviewDuration(d.duration, d.type),
                   validateInterviewers(d.interviewers),
                   validateMeetingDetails([type |-> d.meetingType,
                                           link |-> d.meetingLink,
                                           location |-> d.location]),
                   validateInterviewNotes(d.notes),
                   validateInterviewStatus(d.status) >>
      failing == {i \in DOMAIN facets : facets[i] # {}}
  IN  IF failing = {} THEN {}
      ELSE facets[CHOOSE i \in failing : \A j \in failing : i <= j]

\* Array.prototype.filter(Boolean) over strings
RECURSIVE FilterNonEmpty(_)
FilterNonEmpty(q) ==
  IF q = <<>> THEN <<>>
  ELSE IF Head(q) = "" THEN FilterNonEmpty(Tail(q))
       ELSE <<Head(q)>> \o FilterNonEmpty(Tail(q))

sanitizeInterviewInput(d) ==
  [d EXCEPT
     !.candidateName = IF Falsy(@) THEN @ ELSE sanitizeString(@),
     !.jobTitle      = IF Falsy(@) THEN @ ELSE sanitizeString(@),
     !.meetingLink   = IF Falsy(@) THEN @ ELSE Trim(@),
     !.location      = IF Falsy(@) THEN @ ELSE sanitizeString(@),
     !.notes         = IF Falsy(@) THEN @ ELSE sanitizeString(@),
     !.interviewers  = IF @ = NoList THEN @
                       ELSE FilterNonEmpty([i \in DOMAIN @ |-> sanitizeString(@[i])]),
     !.duration      = IF @ = Missing THEN @
                       ELSE IF @ # 0 THEN @
                       ELSE IF DEFAULT_DURATIONS(d.type) # 0
                              THEN DEFAULT_DURATIONS(d.type) ELSE 60]

----------------------------------------------------------------------------
(* Document builder and display projection (interview-models.js) *)

Null == "null"
NoInstant == 0 - 1        \* metadata.deletedAt of a record never deleted

createInterviewDocument(d, id) ==
  [_id           |-> id,
   candidateId   |-> IF d.candidateId # Undefined /\ ObjectIdIsValid(d.candidateId)
                       THEN d.candidateId ELSE Null,
   candidateName |-> IF d.candidateName = Undefined THEN Undefined
                     ELSE Trim(d.candidateName),
   jobId         |-> IF d.jobId # Undefined /\ ObjectIdIsValid(d.jobId)
                       THEN d.jobId ELSE Null,
   jobTitle      |-> IF d.jobTitle = Undefined THEN Undefined ELSE Trim(d.jobTitle),
   scheduledDate |-> combineDateTime(d.date, d.time),
   duration      |-> IF d.duration # Missing /\ d.duration # 0 THEN d.duration
                     ELSE IF DEFAULT_DURATIONS(d.type) # 0
                            THEN DEFAULT_DURATIONS(d.type) ELSE 60,
   type          |-> IF Falsy(d.type) THEN "screening" ELSE d.type,
   interviewers  |-> IF d.interviewers = NoList THEN <<>>
                     ELSE FilterNonEmpty([i \in DOMAIN d.interviewers |->
                                             Trim(d.interviewers[i])]),
   meetingDetails |->
     [type     |-> IF Falsy(d.meetingType) THEN "video" ELSE d.meetingType,
      link     |-> IF Falsy(d.meetingLink) \/ Trim(d.meetingLink) = ""
                     THEN Null ELSE Trim(d.meetingLink),
      location |-> IF Falsy(d.location) \/ Trim(d.location) = ""
                     THEN Null ELSE Trim(d.location)],
   notes         |-> IF Falsy(d.notes) THEN "" ELSE Trim(d.notes),
   status        |-> IF Falsy(d.status) THEN "scheduled" ELSE d.status,
   metadata      |->
     [createdAt |-> now,
      updatedAt |-> now,
      createdBy |-> IF d.createdBy # Undefined /\ ObjectIdIsValid(d.createdBy)
                      THEN d.createdBy ELSE Null,
      isActive  |-> TRUE,
      deletedAt |-> NoInstant,
      deletedBy |-> Undefined]]

\* Picks a fixed list of fields: whatever else the argument carries is dropped.
formatInterviewForDisplay(interview) ==
  [id            |-> interview._id,
   candidateId   |-> interview.candidateId,
   candidateName |-> interview.candidateName,
   jobId         |-> interview.jobId,
   jobTitle      |-> interview.jobTitle,
   date          |-> UTCDay(interview.scheduledDate),
   time          |-> LocalMinute(interview.scheduledDate),
   duration      |-> <<interview.duration, "minutes">>,
   type          |-> interview.type,
   interviewers  |-> interview.interviewers,
   meetingDetails |-> interview.meetingDetails,
   notes         |-> interview.notes,
   status        |-> interview.status,
   createdAt     |-> interview.metadata.createdAt,
   updatedAt     |-> interview.metadata.updatedAt]

----------------------------------------------------------------------------
(* Store queries (interview-db.js) *)

ConflictWindowMinutes == 30

\* Variant: the 'metadata.isActive': true term left out of the read filters.
ActiveIds_All(st) == DOMAIN st

ActiveIds(st) == {i \in DOMAIN st : st[i].metadata.isActive}

\* Variant: $gt / $lt in place of $gte / $lte.
hasScheduleConflict_Exclusive(st, candidateId, scheduledDate, excludeId) ==
  LET startTime == scheduledDate - ConflictWindowMinutes
      endTime == scheduledDate + ConflictWindowMinutes
      matching == {i \in DOMAIN st :
                     /\ st[i].candidateId = candidateId
                     /\ st[i].scheduledDate > startTime
                     /\ st[i].scheduledDate < endTime
                     /\ st[i].status \in {"scheduled", "rescheduled"}
                     /\ st[i].metadata.isActive
                     /\ (excludeId # NoId => st[i]._id # excludeId)}
  IN  Cardinality(matching) > 0

\* countDocuments(query) > 0
hasScheduleConflict(st, candidateId, scheduledDate, excludeId) ==
  LET startTime == scheduledDate - ConflictWindowMinutes
      endTime == scheduledDate + ConflictWindowMinutes
      matching == {i \in DOMAIN st :
                     /\ st[i].candidateId = candidateId
                     /\ st[i].scheduledDate >= startTime
                     /\ st[i].scheduledDate <= endTime
                     /\ st[i].status \in {"scheduled", "rescheduled"}
                     /\ st[i].metadata.isActive
                     /\ (excludeId # NoId => st[i]._id # excludeId)}
  IN  Cardinality(matching) > 0

\* The ids of S ordered by ascending scheduledDate (ties: insertion order).
RECURSIVE SortByDate(_, _)
SortByDate(st, S) ==
  IF S = {} THEN <<>>
  ELSE LET first == CHOOSE i \in S : \A j \in S :
                       \/ st[i].scheduledDate < st[j].scheduledDate
                       \/ (st[i].scheduledDate = st[j].scheduledDate /\ i <= j)
       IN  <<first>> \o SortByDate(st, S \ {first})

\* find({scheduledDate: {$gte, $lte}, 'metadata.isActive': true}).sort(...)
FindActiveInRange(st, from, to) ==
  LET ids == SortByDate(st, {i \in ActiveIds(st) :
                               st[i].scheduledDate >= from /\ st[i].scheduledDate <= to})
  IN  [k \in DOMAIN ids |-> st[ids[k]]]

StartOfDay(instant) == SetHours(instant, 0)
EndOfDay(instant) == SetHours(instant, MinutesPerDay - 1)

getInterviewsForDate(st, date) == FindActiveInRange(st, StartOfDay(date), EndOfDay(date))

----------------------------------------------------------------------------
(* Collaborators: candidate and job lookups.  A lookup returns the entity,  *)
(* returns null, or throws on a transport failure (fault = "throw", else     *)
(* "none").                                                                 *)

getCandidateById(candidateId, fault) ==
  IF fault = "throw" THEN "throw"
  ELSE IF candidateId \in candidates THEN "found" ELSE "null"

getJobById(jobId, fault) ==
  IF fault = "throw" THEN "throw"
  ELSE IF jobId \in jobs THEN "found" ELSE "null"

----------------------------------------------------------------------------
(* InterviewService helpers (interview-service.js) *)

\* The errors array built by _validateReferences.
validateReferences(candidateId, jobId, cf, jf) ==
  (CASE getCandidateById(candidateId, cf) = "null" ->
          {[field |-> "candidateId", message |-> "Referenced candidate does not exist"]}
     [] getCandidateById(candidateId, cf) = "throw" ->
          {[field |-> "candidateId", message |-> "Failed to validate candidate reference"]}
     [] OTHER -> {})
  \cup
  (CASE getJobById(jobId, jf) = "null" ->
          {[field |-> "jobId", message |-> "Referenced job does not exist"]}
     [] getJobById(jobId, jf) = "throw" ->
          {[field |-> "jobId", message |-> "Failed to validate job reference"]}
     [] OTHER -> {})

\* Variant: enrichment that refreshes the name snapshot from the lookup.
enrichInterviewData_Overwrite(interview, cf, jf) ==
  [interview EXCEPT !.candidateName =
     IF getCandidateById(interview.candidateId, cf) = "found"
       THEN FullName(interview.candidateId) ELSE Null]

\* A null info object is the empty sequence, an info object a one-element one.
enrichInterviewData(interview, cf, jf) ==
  LET c == getCandidateById(interview.candidateId, cf)
      j == getJobById(interview.jobId, jf)
      withCandidate ==
        IF interview.candidateId = Null THEN interview
        ELSE CASE c = "found" ->
                    [currentCandidateInfo |->
                       <<[name |-> FullName(interview.candidateId),
                          email |-> CandidateRecord(interview.candidateId).personalInfo.email,
                          currentStage |->
                            CandidateRecord(interview.candidateId).pipelineInfo.currentStage]>>]
                    @@ interview
               [] c = "null" ->
                    [currentCandidateInfo |-> <<>>, candidateDeleted |-> TRUE] @@ interview
               [] OTHER ->
                    [currentCandidateInfo |-> <<>>] @@ interview
  IN  IF interview.jobId = Null THEN withCandidate
      ELSE CASE j = "found" ->
                  [currentJobInfo |-> <<JobRecord(interview.jobId)>>] @@ withCandidate
             [] j = "null" ->
                  [currentJobInfo |-> <<>>, jobDeleted |-> TRUE] @@ withCandidate
             [] OTHER ->
                  [currentJobInfo |-> <<>>] @@ withCandidate

\* An InterviewServiceError as the caller sees it: code, status and the one message.
\* "resolved" records what the handler had resolved when it answered.
Error(op, resolved, code, statusCode, message) ==
  [op |-> op, resolved |-> resolved, code |-> code, statusCode |-> statusCode,
   messages |-> {message}, value |-> <<>>]

Ok(op, resolved, value) ==
  [op |-> op, resolved |-> resolved, code |-> "OK", statusCode |-> 200,
   messages |-> {}, value |-> value]

Nothing == [id |-> NoId]

InitializationError(op) ==
  Error(op, Nothing, "INITIALIZATION_ERROR", 500, "Failed to initialize interview service")

----------------------------------------------------------------------------
(* createInterview *)

\* Lines 183-216: everything before the insert.  Yields the error to throw, or
\* the sanitized data to build the document from.  In "resolved": the candidate
\* and the instant handed to the conflict check, the number of documents the
\* collection held when the check ran, the outcomes of the two lookups, and
\* the duration, candidateName and jobTitle the caller passed.
CreateCheck(st, interviewData, cf, jf) ==
  LET sanitizedData == sanitizeInterviewInput(interviewData)
      invalid == validateInterviewData(sanitizedData)
      refErrors == validateReferences(sanitizedData.candidateId, sanitizedData.jobId, cf, jf)
      named == [sanitizedData EXCEPT
                  !.candidateName = IF Falsy(@) THEN FullName(sanitizedData.candidateId) ELSE @,
                  !.jobTitle = IF Falsy(@) THEN JobRecord(sanitizedData.jobId).title ELSE @]
      scheduledDate == ParseLocalDateTime(named.date, named.time)
      unresolved == [candidateId |-> Undefined, at |-> Missing, seen |-> Missing,
                     candidate |-> "skipped", job |-> "skipped",
                     duration |-> interviewData.duration,
                     candidateName |-> interviewData.candidateName,
                     jobTitle |-> interviewData.jobTitle]
      looked == [unresolved EXCEPT
                   !.candidateId = sanitizedData.candidateId,
                   !.candidate = getCandidateById(sanitizedData.candidateId, cf),
                   !.job = getJobById(sanitizedData.jobId, jf)]
      checked == [looked EXCEPT !.at = scheduledDate, !.seen = Len(st)]
  IN  IF invalid # {}
        THEN [error |-> Error("create", unresolved, "VALIDATION_ERROR", 400,
                              "Interview validation failed"),
              data |-> sanitizedData]
      ELSE IF refErrors # {}
        THEN [error |-> Error("create", looked, "INVALID_REFERENCES", 400,
                              "Referential integrity validation failed"),
              data |-> sanitizedData]
      ELSE IF hasScheduleConflict(st, named.candidateId, scheduledDate, NoId)
        THEN [error |-> Error("create", checked, "SCHEDULE_CONFLICT", 409,
                              "Schedule conflict: Candidate already has an interview scheduled within 30 minutes of this time"),
              data |-> named]
      ELSE [error |-> Ok("create", checked, <<>>), data |-> named]

\* collection.insertOne(interviewDoc): the store assigns the next id.
InsertOne(st, data, userId) ==
  Append(st, createInterviewDocument([data EXCEPT !.createdBy = userId], Len(st) + 1))

\* Variant: the document is inserted before the conflict check answers.
createInterview_InsertsFirst(interviewData, userId, cf, jf) ==
  LET checked == CreateCheck(store, interviewData, cf, jf)
      inserted == InsertOne(store, checked.data, userId)
      created == inserted[Len(inserted)]
  IN  /\ initialized
      /\ IF checked.error.code \in {"VALIDATION_ERROR", "INVALID_REFERENCES"}
           THEN /\ resp' = checked.error
                /\ store' = store
           ELSE /\ Len(store) < MaxInterviews
                /\ store' = inserted
                /\ resp' = IF checked.error.code = "SCHEDULE_CONFLICT"
                             THEN checked.error
                             ELSE Ok("create", checked.error.resolved,
                                     <<formatInterviewForDisplay(
                                         enrichInterviewData(created, cf, jf))>>)
      /\ UNCHANGED <<candidates, jobs, initialized, tz, now, inflight>>

createInterview(interviewData, userId, cf, jf) ==
  LET checked == CreateCheck(store, interviewData, cf, jf)
      inserted == InsertOne(store, checked.data, userId)
      created == inserted[Len(inserted)]
  IN  /\ initialized
      /\ IF checked.error.code # "OK"
           THEN /\ resp' = checked.error
                /\ store' = store
           ELSE /\ Len(store) < MaxInterviews
                /\ store' = inserted
                /\ resp' = Ok("create", checked.error.resolved,
                     <<formatInterviewForDisplay(enrichInterviewData(created, cf, jf))>>)
      /\ UNCHANGED <<candidates, jobs, initialized, tz, now, inflight>>

----------------------------------------------------------------------------
(* Reads *)

InterviewIdIsValid(interviewId) == interviewId >= 1

\* collection.findOne({_id, 'metadata.isActive': true})
FindActiveById(st, interviewId) ==
  IF interviewId \in ActiveIds(st) THEN <<st[interviewId]>> ELSE <<>>

\* The value getInterviewById resolves to: <<>> is null.
GetById(st, interviewId, cf, jf) ==
  LET found == FindActiveById(st, interviewId)
  IN  IF found = <<>> THEN <<>>
      ELSE <<formatInterviewForDisplay(enrichInterviewData(found[1], cf, jf))>>

getInterviewById(interviewId, cf, jf) ==
  /\ initialized
  /\ resp' = IF ~InterviewIdIsValid(interviewId)
               THEN Error("get", [id |-> interviewId, cf |-> cf, jf |-> jf],
                          "INVALID_ID", 400, "Invalid interview ID format")
               ELSE Ok("get", [id |-> interviewId, cf |-> cf, jf |-> jf],
                       GetById(store, interviewId, cf, jf))
  /\ UNCHANGED <<store, candidates, jobs, initialized, tz, now, inflight>>

\* A filter is a record of status, type, candidateId ("" = not given).
MatchesFilters(doc, filters) ==
  /\ (filters.status \in INTERVIEW_STATUS => doc.status = filters.status)
  /\ (filters.type \in INTERVIEW_TYPES => doc.type = filters.type)
  /\ (ObjectIdIsValid(filters.candidateId) => doc.candidateId = filters.candidateId)

getAllInterviews(filters, cf, jf) ==
  LET ids == SortByDate(store, {i \in ActiveIds(store) : MatchesFilters(store[i], filters)})
      interviews == [k \in DOMAIN ids |->
                       formatInterviewForDisplay(enrichInterviewData(store[ids[k]], cf, jf))]
  IN  /\ initialized
      /\ resp' = Ok("list", [id |-> NoId, cf |-> cf, jf |-> jf, filters |-> filters],
                    interviews)
      /\ UNCHANGED <<store, candidates, jobs, initialized, tz, now, inflight>>

getInterviewsByDateRange(startDate, endDate) ==
  LET found == FindActiveInRange(store, startDate, endDate)
  IN  /\ initialized
      /\ resp' = Ok("range", Nothing, [k \in DOMAIN found |-> formatInterviewForDisplay(found[k])])
      /\ UNCHANGED <<store, candidates, jobs, initialized, tz, now, inflight>>

getInterviewsByDate(date) ==
  LET found == FindActiveInRange(store, StartOfDay(date), EndOfDay(date))
  IN  /\ initialized
      /\ resp' = Ok("date", Nothing, [k \in DOMAIN found |-> formatInterviewForDisplay(found[k])])
      /\ UNCHANGED <<store, candidates, jobs, initialized, tz, now, inflight>>

----------------------------------------------------------------------------
(* getInterviewStats *)

\* generateInterviewerInitials on one name
Initials(name) ==
  CASE name = "John Doe"   -> "JD"
    [] name = "JOHN DOE"   -> "JD"
    [] name = "Jane Smith" -> "JS"
    [] name = "Jane Davis" -> "JD"
    [] name = "Cher"       -> "C"
    [] OTHER               -> ""

generateInterviewerInitials(interviewers) ==
  [i \in DOMAIN interviewers |-> Initials(interviewers[i])]

\* [...new Set(list)]: first occurrences, in order
RECURSIVE Unique(_)
Unique(q) ==
  IF q = <<>> THEN <<>>
  ELSE LET rest == Unique(SubSeq(q, 1, Len(q) - 1))
       IN  IF q[Len(q)] \in SeqToSet(rest) THEN rest ELSE Append(rest, q[Len(q)])

RECURSIVE FlatInterviewers(_)
FlatInterviewers(docs) ==
  IF docs = <<>> THEN <<>>
  ELSE Head(docs).interviewers \o FlatInterviewers(Tail(docs))

\* Variant: the status filter left out.
FilterScheduled_Any(docs) == docs

RECURSIVE FilterScheduled(_)
FilterScheduled(docs) ==
  IF docs = <<>> THEN <<>>
  ELSE IF Head(docs).status = "scheduled" \/ Head(docs).status = "rescheduled"
         THEN <<Head(docs)>> \o FilterScheduled(Tail(docs))
         ELSE FilterScheduled(Tail(docs))

InterviewStats(st, date) ==
  LET todayInterviews == FilterScheduled(getInterviewsForDate(st, date))
      types == {todayInterviews[k].type : k \in DOMAIN todayInterviews}
  IN  [date |-> UTCDay(date),
       totalInterviews |-> Len(todayInterviews),
       interviewerInitials |->
         generateInterviewerInitials(Unique(FlatInterviewers(todayInterviews))),
       interviewsByType |->
         [t \in types |-> Cardinality({k \in DOMAIN todayInterviews :
                                         todayInterviews[k].type = t})],
       interviews |-> [k \in DOMAIN todayInterviews |->
                         formatInterviewForDisplay(todayInterviews[k])]]

getInterviewStats(date) ==
  /\ initialized
  /\ resp' = Ok("stats", [id |-> NoId, date |-> date], <<InterviewStats(store, date)>>)
  /\ UNCHANGED <<store, candidates, jobs, initialized, tz, now, inflight>>

----------------------------------------------------------------------------
(* updateInterview *)

\* Lines 426-445: the conflict check of an update, on the display form of the
\* stored interview; "error" when new ObjectId(candidateId) throws.
UpdateConflict(st, interviewId, existingInterview, sanitizedUpdates) ==
  IF (sanitizedUpdates.date # Missing \/ sanitizedUpdates.time # Missing)
       /\ ~Falsy(sanitizedUpdates.candidateId)
    THEN LET newDate == IF sanitizedUpdates.date # Missing
                          THEN sanitizedUpdates.date ELSE existingInterview.date
             newTime == IF sanitizedUpdates.time # Missing
                          THEN sanitizedUpdates.time ELSE existingInterview.time
         IN  IF ~ObjectIdIsValid(sanitizedUpdates.candidateId) THEN "error"
             ELSE IF hasScheduleConflict(st, sanitizedUpdates.candidateId,
                                         ParseLocalDateTime(newDate, newTime), interviewId)
                    THEN "conflict" ELSE "none"
    ELSE "none"

\* Variant: a patch with a date or a time alone moves the interview, the other
\* half taken from the interview as read.
ApplyUpdate_MovesOnEither(doc, existingInterview, u) ==
  [doc EXCEPT
     !.metadata.updatedAt = now,
     !.candidateName = IF u.candidateName # Undefined THEN u.candidateName ELSE @,
     !.jobTitle      = IF u.jobTitle # Undefined THEN u.jobTitle ELSE @,
     !.type          = IF u.type # Undefined THEN u.type ELSE @,
     !.interviewers  = IF u.interviewers # NoList THEN u.interviewers ELSE @,
     !.notes         = IF u.notes # Undefined THEN u.notes ELSE @,
     !.status        = IF u.status # Undefined THEN u.status ELSE @,
     !.scheduledDate = IF u.date # Missing \/ u.time # Missing
                         THEN ParseLocalDateTime(
                                IF u.date # Missing THEN u.date ELSE existingInterview.date,
                                IF u.time # Missing THEN u.time ELSE existingInterview.time)
                         ELSE @,
     !.meetingDetails =
        IF ~Falsy(u.meetingType) \/ ~Falsy(u.meetingLink) \/ ~Falsy(u.location)
          THEN [type |-> IF ~Falsy(u.meetingType) THEN u.meetingType
                         ELSE existingInterview.meetingDetails.type,
                link |-> IF ~Falsy(u.meetingLink) THEN u.meetingLink
                         ELSE existingInterview.meetingDetails.link,
                location |-> IF ~Falsy(u.location) THEN u.location
                             ELSE existingInterview.meetingDetails.location]
          ELSE @]

\* Variant: meetingDetails replaced wholesale by what the patch carries.
ApplyUpdate_ReplacesMeetingDetails(doc, existingInterview, u) ==
  [doc EXCEPT
     !.metadata.updatedAt = now,
     !.candidateName = IF u.candidateName # Undefined THEN u.candidateName ELSE @,
     !.jobTitle      = IF u.jobTitle # Undefined THEN u.jobTitle ELSE @,
     !.type          = IF u.type # Undefined THEN u.type ELSE @,
     !.interviewers  = IF u.interviewers # NoList THEN u.interviewers ELSE @,
     !.notes         = IF u.notes # Undefined THEN u.notes ELSE @,
     !.status        = IF u.status # Undefined THEN u.status ELSE @,
     !.scheduledDate = IF u.date # Missing /\ u.time # Missing
                         THEN ParseLocalDateTime(u.date, u.time) ELSE @,
     !.meetingDetails =
        IF ~Falsy(u.meetingType) \/ ~Falsy(u.meetingLink) \/ ~Falsy(u.location)
          THEN [type |-> IF ~Falsy(u.meetingType) THEN u.meetingType ELSE Null,
                link |-> IF ~Falsy(u.meetingLink) THEN u.meetingLink ELSE Null,
                location |-> IF ~Falsy(u.location) THEN u.location ELSE Null]
          ELSE @]

\* Lines 447-479: the $set document applied to the stored record.
ApplyUpdate(doc, existingInterview, u) ==
  [doc EXCEPT
     !.metadata.updatedAt = now,
     !.candidateName = IF u.candidateName # Undefined THEN u.candidateName ELSE @,
     !.jobTitle      = IF u.jobTitle # Undefined THEN u.jobTitle ELSE @,
     !.type          = IF u.type # Undefined THEN u.type ELSE @,
     !.interviewers  = IF u.interviewers # NoList THEN u.interviewers ELSE @,
     !.notes         = IF u.notes # Undefined THEN u.notes ELSE @,
     !.status        = IF u.status # Undefined THEN u.status ELSE @,
     !.scheduledDate = IF u.date # Missing /\ u.time # Missing
                         THEN ParseLocalDateTime(u.date, u.time) ELSE @,
     !.meetingDetails =
        IF ~Falsy(u.meetingType) \/ ~Falsy(u.meetingLink) \/ ~Falsy(u.location)
          THEN [type |-> IF ~Falsy(u.meetingType) THEN u.meetingType
                         ELSE existingInterview.meetingDetails.type,
                link |-> IF ~Falsy(u.meetingLink) THEN u.meetingLink
                         ELSE existingInterview.meetingDetails.link,
                location |-> IF ~Falsy(u.location) THEN u.location
                             ELSE existingInterview.meetingDetails.location]
          ELSE @]

\* Variant: the filter matches on _id alone.
FindOneAndUpdate_AnyRecord(st, interviewId, newDoc) ==
  IF interviewId \in DOMAIN st
    THEN [store |-> [st EXCEPT ![interviewId] = newDoc], result |-> <<newDoc>>]
    ELSE [store |-> st, result |-> <<>>]

\* collection.findOneAndUpdate({_id, 'metadata.isActive': true}, update,
\* {returnDocument: 'after'}): the collection afterwards and the document
\* returned, <<>> for null.
FindOneAndUpdate(st, interviewId, newDoc) ==
  IF interviewId \in ActiveIds(st)
    THEN [store |-> [st EXCEPT ![interviewId] = newDoc], result |-> <<newDoc>>]
    ELSE [store |-> st, result |-> <<>>]

InvalidId(op, interviewId) ==
  Error(op, [id |-> interviewId], "INVALID_ID", 400, "Invalid interview ID format")

NotFound(op, interviewId) ==
  Error(op, [id |-> interviewId], "NOT_FOUND", 404, "Interview not found")

UpdateError(interviewId) ==
  Error("update", [id |-> interviewId], "UPDATE_ERROR", 500, "Failed to update interview")

UpdateFailed(interviewId) ==
  Error("update", [id |-> interviewId], "UPDATE_FAILED", 500, "Failed to update interview")

ScheduleConflict(interviewId) ==
  Error("update", [id |-> interviewId], "SCHEDULE_CONFLICT", 409,
        "Schedule conflict: Candidate already has an interview scheduled within 30 minutes of this time")

updateInterview(interviewId, updates, userId, cf, jf) ==
  LET existing == GetById(store, interviewId, cf, jf)
      sanitizedUpdates == sanitizeInterviewInput(updates)
      conflict == UpdateConflict(store, interviewId, existing[1], sanitizedUpdates)
      written == FindOneAndUpdate(store, interviewId,
                    ApplyUpdate(store[interviewId], existing[1], sanitizedUpdates))
  IN  /\ initialized
      /\ IF ~InterviewIdIsValid(interviewId)
           THEN resp' = InvalidId("update", interviewId) /\ store' = store
         ELSE IF existing = <<>>
           THEN resp' = NotFound("update", interviewId) /\ store' = store
         ELSE IF conflict = "error"
           THEN resp' = UpdateError(interviewId) /\ store' = store
         ELSE IF conflict = "conflict"
           THEN resp' = ScheduleConflict(interviewId) /\ store' = store
         ELSE IF written.result = <<>>
           THEN resp' = UpdateFailed(interviewId) /\ store' = store
         ELSE /\ store' = written.store
              /\ resp' = Ok("update", [id |-> interviewId],
                            <<formatInterviewForDisplay(written.result[1])>>)
      /\ UNCHANGED <<candidates, jobs, initialized, tz, now, inflight>>

----------------------------------------------------------------------------
(* deleteInterview *)

\* Variant: a deletion that also cancels the interview.
SoftDelete_Cancels(doc, userId) ==
  [doc EXCEPT !.status = "cancelled",
              !.metadata.isActive = FALSE,
              !.metadata.deletedAt = now,
              !.metadata.deletedBy = IF userId # Undefined THEN userId ELSE Null]

\* The $set of lines 538-546.
SoftDelete(doc, userId) ==
  [doc EXCEPT !.metadata.isActive = FALSE,
              !.metadata.deletedAt = now,
              !.metadata.deletedBy = IF userId # Undefined THEN userId ELSE Null]

deleteInterview(interviewId, userId) ==
  LET written == FindOneAndUpdate(store, interviewId,
                                  SoftDelete(store[interviewId], userId))
  IN  /\ initialized
      /\ IF ~InterviewIdIsValid(interviewId)
           THEN resp' = InvalidId("delete", interviewId) /\ store' = store
         ELSE IF written.result = <<>>
           THEN resp' = NotFound("delete", interviewId) /\ store' = store
         ELSE /\ store' = written.store
              /\ resp' = Ok("delete", [id |-> interviewId], <<TRUE>>)
      /\ UNCHANGED <<candidates, jobs, initialized, tz, now, inflight>>

----------------------------------------------------------------------------
(* initialize, and the collaborators' own deletions *)

Ops == {"create", "get", "list", "update", "delete", "stats", "range", "date"}

\* The error a request of kind op ends with when its initialize() throws.
InitFailure(op) ==
  CASE op = "list"  -> Error(op, Nothing, "LIST_ERROR", 500, "Failed to retrieve interviews")
    [] op = "stats" -> Error(op, Nothing, "STATS_ERROR", 500, "Failed to get interview statistics")
    [] op = "range" -> Error(op, Nothing, "DATE_RANGE_ERROR", 500, "Failed to get interviews by date range")
    [] op = "date"  -> Error(op, Nothing, "DATE_ERROR", 500, "Failed to get interviews by date")
    [] OTHER        -> InitializationError(op)

\* The initialize() a request of kind op awaits first, while the service is not
\* initialized: the store is reachable (the request goes on with its handler)
\* or it is not (the request ends with the error).
initialize(op, reachable) ==
  /\ ~initialized
  /\ IF reachable
       THEN initialized' = TRUE /\ resp' = resp
       ELSE initialized' = FALSE /\ resp' = InitFailure(op)
  /\ UNCHANGED <<store, candidates, jobs, tz, now, inflight>>

deleteCandidate(c) ==
  /\ c \in candidates
  /\ candidates' = candidates \ {c}
  /\ UNCHANGED <<store, jobs, initialized, tz, now, resp, inflight>>

deleteJob(j) ==
  /\ j \in jobs
  /\ jobs' = jobs \ {j}
  /\ UNCHANGED <<store, candidates, initialized, tz, now, resp, inflight>>

----------------------------------------------------------------------------
(* Requests the model issues *)

Times == {10 * 60, 10 * 60 + 30, 10 * 60 + 31}
TZOffsets == {0 - 60, 0}
NowValues == {20 * MinutesPerDay + 10 * 60 + 15}

GhostCandidate == "c0"            \* a well-formed candidate id that was never stored

EmptyInput ==
  [candidateId |-> Undefined, candidateName |-> Undefined,
   jobId |-> Undefined, jobTitle |-> Undefined,
   date |-> Missing, time |-> Missing,
   type |-> Undefined, duration |-> Missing, interviewers |-> NoList,
   meetingType |-> Undefined, meetingLink |-> Undefined, location |-> Undefined,
   notes |-> Undefined, status |-> Undefined, createdBy |-> Undefined]

BaseInput ==
  [EmptyInput EXCEPT
     !.candidateId = "c1", !.candidateName = "Ann Lee",
     !.jobId = "j1", !.jobTitle = "Engineer",
     !.date = 21, !.time = 10 * 60,
     !.type = "technical", !.duration = 60, !.interviewers = <<"John Doe">>,
     !.meetingType = "video"]

NoFaults == <<"none", "none">>

WellFormedCreateInputs ==
  {[BaseInput EXCEPT !.candidateId = c, !.candidateName = FullName(c), !.time = t] :
     c \in Candidates, t \in Times}
  \cup
  {[BaseInput EXCEPT !.status = "cancelled"]}

MalformedCreateInputs ==
  {[BaseInput EXCEPT !.time = 7 * 60 + 59],
   [BaseInput EXCEPT !.date = 20],
   [BaseInput EXCEPT !.candidateId = BadObjectId],
   [BaseInput EXCEPT !.candidateName = Undefined],
   [BaseInput EXCEPT !.status = "pending"]}

DanglingCreateInputs ==
  {[BaseInput EXCEPT !.jobId = GhostJob],
   [BaseInput EXCEPT !.candidateId = GhostCandidate],
   [BaseInput EXCEPT !.candidateId = GhostCandidate, !.jobId = GhostJob]}

\* A create request: the input and the faults of its two lookups.
CreateRequests ==
  ((WellFormedCreateInputs \cup MalformedCreateInputs \cup DanglingCreateInputs)
     \X {NoFaults})
  \cup ({BaseInput} \X {<<"throw", "none">>, <<"none", "throw">>})

Moved == 10 * 60 + 30             \* the time the rescheduling patches ask for

UpdateInputs ==
  {[EmptyInput EXCEPT !.date = 21, !.time = Moved]}
  \cup
  {[EmptyInput EXCEPT !.date = 21, !.time = Moved, !.candidateId = c] : c \in Candidates}
  \cup
  {[EmptyInput EXCEPT !.time = Moved, !.candidateId = c] : c \in Candidates}
  \cup
  {[EmptyInput EXCEPT !.status = s] : s \in {"scheduled", "rescheduled"}}
  \cup
  {[EmptyInput EXCEPT !.time = Moved, !.candidateId = BadObjectId]}

InterviewIds == 0 .. MaxInterviews

Procs == {"p1", "p2"}

IdleRequest ==
  [pc |-> "idle", id |-> NoId, data |-> EmptyInput, userId |-> Undefined,
   resolved |-> Nothing, existing |-> <<>>]

NoResponse == Ok("none", Nothing, <<>>)

----------------------------------------------------------------------------
(* Requests served one at a time: the writes *)

Init ==
  /\ store = <<>>
  /\ candidates = Candidates
  /\ jobs = Jobs
  /\ initialized = FALSE
  /\ tz \in TZOffsets
  /\ now \in NowValues
  /\ resp = NoResponse
  /\ inflight = [p \in Procs |-> IdleRequest]

Next ==
  \/ \E op \in {"create", "update", "delete"}, reachable \in BOOLEAN :
       initialize(op, reachable)
  \/ \E r \in CreateRequests, u \in Users : createInterview(r[1], u, r[2][1], r[2][2])
  \/ \E id \in InterviewIds, d \in UpdateInputs, u \in Users :
       updateInterview(id, d, u, "none", "none")
  \/ \E id \in InterviewIds, u \in Users : deleteInterview(id, u)

Spec == Init /\ [][Next]_vars

----------------------------------------------------------------------------
(* Requests served one at a time: the reads, over a store a few writes fill, *)
(* while the collaborators delete candidates and jobs                        *)

ReadCreateRequests ==
  {[BaseInput EXCEPT !.notes = "first round"],
   [BaseInput EXCEPT !.status = "cancelled"],
   [BaseInput EXCEPT !.candidateId = "c2", !.candidateName = "Bob Ray",
                     !.time = 10 * 60 + 30]}

LookupOutcomes == {<<"none", "none">>, <<"throw", "none">>, <<"none", "throw">>}

NoFilters == [status |-> "", type |-> "", candidateId |-> ""]

FilterInputs ==
  {NoFilters, [NoFilters EXCEPT !.status = "scheduled"],
   [NoFilters EXCEPT !.candidateId = "c1"]}

DateInputs == {ParseDateOnly(20), ParseDateOnly(21)}

RangeInputs ==
  {<<ParseDateOnly(20), ParseDateOnly(22)>>,
   <<ParseDateOnly(21) + 10 * 60 + 15, ParseDateOnly(21) + 11 * 60>>}

ReadNext ==
  \/ \E op \in Ops, reachable \in BOOLEAN : initialize(op, reachable)
  \/ \E d \in ReadCreateRequests, u \in Users : createInterview(d, u, "none", "none")
  \/ \E id \in InterviewIds, u \in Users : deleteInterview(id, u)
  \/ \E c \in Candidates : deleteCandidate(c)
  \/ \E j \in Jobs : deleteJob(j)
  \/ \E id \in InterviewIds, f \in LookupOutcomes : getInterviewById(id, f[1], f[2])
  \/ \E filters \in FilterInputs, f \in LookupOutcomes :
       getAllInterviews(filters, f[1], f[2])
  \/ \E r \in RangeInputs : getInterviewsByDateRange(r[1], r[2])
  \/ \E date \in DateInputs : getInterviewsByDate(date)
  \/ \E date \in DateInputs : getInterviewStats(date)

ReadSpec == Init /\ [][ReadNext]_vars

----------------------------------------------------------------------------
(* Overlapping requests: a handler runs up to its next store round trip, and *)
(* another request may run in between.  The lookups of createInterview read  *)
(* the collaborators only, so its steps up to the conflict check are taken   *)
(* with the check; the insert is a round trip of its own.                    *)

Inserting == {p \in Procs : inflight[p].pc = "insert"}

\* Variant: a request goes on to its insert whatever the conflict check found.
CreateBegin_IgnoresConflict(p, interviewData, userId, cf, jf) ==
  LET checked == CreateCheck(store, interviewData, cf, jf)
  IN  /\ initialized
      /\ inflight[p].pc = "idle"
      /\ IF checked.error.code \notin {"OK", "SCHEDULE_CONFLICT"}
           THEN /\ resp' = checked.error
                /\ inflight' = inflight
           ELSE /\ Len(store) + Cardinality(Inserting) < MaxInterviews
                /\ resp' = resp
                /\ inflight' = [inflight EXCEPT ![p] =
                     [IdleRequest EXCEPT !.pc = "insert", !.data = checked.data,
                                         !.userId = userId,
                                         !.resolved = checked.error.resolved]]
      /\ UNCHANGED <<store, candidates, jobs, initialized, tz, now>>

\* createInterview, lines 183-216
CreateBegin(p, interviewData, userId, cf, jf) ==
  LET checked == CreateCheck(store, interviewData, cf, jf)
  IN  /\ initialized
      /\ inflight[p].pc = "idle"
      /\ IF checked.error.code # "OK"
           THEN /\ resp' = checked.error
                /\ inflight' = inflight
           ELSE /\ Len(store) + Cardinality(Inserting) < MaxInterviews
                /\ resp' = resp
                /\ inflight' = [inflight EXCEPT ![p] =
                     [IdleRequest EXCEPT !.pc = "insert", !.data = checked.data,
                                         !.userId = userId,
                                         !.resolved = checked.error.resolved]]
      /\ UNCHANGED <<store, candidates, jobs, initialized, tz, now>>

\* Variant: the insert looks for a conflict again and gives up on one.
CreateInsert_Rechecks(p) ==
  LET r == inflight[p]
      inserted == InsertOne(store, r.data, r.userId)
      created == inserted[Len(inserted)]
  IN  /\ r.pc = "insert"
      /\ IF hasScheduleConflict(store, r.resolved.candidateId, r.resolved.at, NoId)
           THEN /\ store' = store
                /\ resp' = Error("create", r.resolved, "SCHEDULE_CONFLICT", 409,
                                 "Schedule conflict")
           ELSE /\ store' = inserted
                /\ resp' = Ok("create", r.resolved,
                              <<formatInterviewForDisplay(
                                  enrichInterviewData(created, "none", "none"))>>)
      /\ inflight' = [inflight EXCEPT ![p] = IdleRequest]
      /\ UNCHANGED <<candidates, jobs, initialized, tz, now>>

\* createInterview, lines 218-240
CreateInsert(p) ==
  LET inserted == InsertOne(store, inflight[p].data, inflight[p].userId)
      created == inserted[Len(inserted)]
  IN  /\ inflight[p].pc = "insert"
      /\ store' = inserted
      /\ resp' = Ok("create", inflight[p].resolved,
                    <<formatInterviewForDisplay(enrichInterviewData(created, "none", "none"))>>)
      /\ inflight' = [inflight EXCEPT ![p] = IdleRequest]
      /\ UNCHANGED <<candidates, jobs, initialized, tz, now>>

\* updateInterview, lines 405-424
UpdateFetch(p, interviewId, updates, userId) ==
  LET existing == GetById(store, interviewId, "none", "none")
  IN  /\ initialized
      /\ inflight[p].pc = "idle"
      /\ IF ~InterviewIdIsValid(interviewId)
           THEN resp' = InvalidId("update", interviewId) /\ inflight' = inflight
         ELSE IF existing = <<>>
           THEN resp' = NotFound("update", interviewId) /\ inflight' = inflight
         ELSE /\ resp' = resp
              /\ inflight' = [inflight EXCEPT ![p] =
                   [IdleRequest EXCEPT !.pc = "check", !.id = interviewId,
                                       !.data = sanitizeInterviewInput(updates),
                                       !.userId = userId, !.existing = existing]]
      /\ UNCHANGED <<store, candidates, jobs, initialized, tz, now>>

\* updateInterview, lines 426-445
UpdateCheck(p) ==
  LET r == inflight[p]
      conflict == UpdateConflict(store, r.id, r.existing[1], r.data)
  IN  /\ r.pc = "check"
      /\ IF conflict = "error"
           THEN resp' = UpdateError(r.id)
                /\ inflight' = [inflight EXCEPT ![p] = IdleRequest]
         ELSE IF conflict = "conflict"
           THEN resp' = ScheduleConflict(r.id)
                /\ inflight' = [inflight EXCEPT ![p] = IdleRequest]
         ELSE resp' = resp
              /\ inflight' = [inflight EXCEPT ![p].pc = "write"]
      /\ UNCHANGED <<store, candidates, jobs, initialized, tz, now>>

\* updateInterview, lines 447-497
UpdateWrite(p) ==
  LET r == inflight[p]
      written == FindOneAndUpdate(store, r.id,
                                  ApplyUpdate(store[r.id], r.existing[1], r.data))
  IN  /\ r.pc = "write"
      /\ IF written.result = <<>>
           THEN resp' = UpdateFailed(r.id) /\ store' = store
           ELSE /\ store' = written.store
                /\ resp' = Ok("update", [id |-> r.id],
                              <<formatInterviewForDisplay(written.result[1])>>)
      /\ inflight' = [inflight EXCEPT ![p] = IdleRequest]
      /\ UNCHANGED <<candidates, jobs, initialized, tz, now>>

\* Two slots one minute apart, and a patch that moves an interview onto the first.
ConcCreateInputs == {[BaseInput EXCEPT !.time = t] : t \in {Moved, Moved + 1}}

ConcUpdateInputs ==
  {[EmptyInput EXCEPT !.date = 21, !.time = Moved, !.candidateId = "c1"]}

ConcNext ==
  \/ \E op \in {"create", "update", "delete"}, reachable \in BOOLEAN :
       initialize(op, reachable)
  \/ \E p \in Procs, d \in ConcCreateInputs, u \in Users :
       CreateBegin(p, d, u, "none", "none")
  \/ \E p \in Procs : CreateInsert(p)
  \/ \E p \in Procs, id \in InterviewIds, d \in ConcUpdateInputs, u \in Users :
       UpdateFetch(p, id, d, u)
  \/ \E p \in Procs : UpdateCheck(p)
  \/ \E p \in Procs : UpdateWrite(p)
  \/ \E id \in InterviewIds, u \in Users : deleteInterview(id, u)

ConcSpec == Init /\ [][ConcNext]_vars

----------------------------------------------------------------------------
(* validateInterviewData applied on its own to inputs that break several    *)
(* rules at once                                                            *)

\* Every combination of six independent defects on an otherwise valid input.
ValidationInputs ==
  {[BaseInput EXCEPT !.candidateId = c, !.time = t, !.duration = n,
                     !.interviewers = i, !.notes = s, !.status = x] :
     c \in {"c1", BadObjectId}, t \in {10 * 60, 7 * 60 + 59}, n \in {60, 20},
     i \in {<<"John Doe">>, <<"John Doe", "JOHN DOE">>},
     s \in {Undefined, "LONG-2001"}, x \in {Undefined, "pending"}}

ValidationInit ==
  /\ store = <<>>
  /\ candidates = Candidates
  /\ jobs = Jobs
  /\ initialized = FALSE
  /\ tz \in TZOffsets
  /\ now \in NowValues
  /\ resp = NoResponse
  /\ \E d \in ValidationInputs :
       inflight = [p \in Procs |-> [IdleRequest EXCEPT !.data = d]]

\* One call of validateInterviewData: "messages" holds the field of every entry
\* of the thrown ValidationError's errors array, "resolved" the argument.
validate(p) ==
  LET interviewData == inflight[p].data
      errors == validateInterviewData(interviewData)
      resolved == [id |-> NoId, input |-> interviewData]
  IN  /\ resp' = IF errors # {}
                   THEN [Error("validate", resolved, "VALIDATION_ERROR", 400, "")
                           EXCEPT !.messages = errors]
                   ELSE Ok("validate", resolved, <<>>)
      /\ UNCHANGED <<store, candidates, jobs, initialized, tz, now, inflight>>

ValidationNext == \E p \in Procs : validate(p)

ValidationSpec == ValidationInit /\ [][ValidationNext]_vars

----------------------------------------------------------------------------
(* Requests served one at a time: creates and patches that carry a status   *)
(* or an interviewers list the validation would refuse                      *)

ElevenInterviewers ==
  <<"I1", "I2", "I3", "I4", "I5", "I6", "I7", "I8", "I9", "I10", "I11">>

PatchCreateInputs ==
  {[BaseInput EXCEPT !.candidateId = c, !.candidateName = FullName(c)] : c \in Candidates}
  \cup
  {[BaseInput EXCEPT !.status = "pending"],
   [BaseInput EXCEPT !.interviewers = <<"John Doe", "JOHN DOE">>],
   [BaseInput EXCEPT !.interviewers = <<"John Doe", "  ">>],
   [BaseInput EXCEPT !.interviewers = ElevenInterviewers]}

PatchInputs ==
  {[EmptyInput EXCEPT !.status = s] : s \in {"completed", "pending"}}
  \cup
  {[EmptyInput EXCEPT !.interviewers = i] :
     i \in {<<"John Doe", "JOHN DOE">>, <<"Jane Smith", "  ">>, ElevenInterviewers}}

PatchNext ==
  \/ \E op \in {"create", "update", "delete"}, reachable \in BOOLEAN :
       initialize(op, reachable)
  \/ \E d \in PatchCreateInputs, u \in Users : createInterview(d, u, "none", "none")
  \/ \E id \in InterviewIds, d \in PatchInputs, u \in Users :
       updateInterview(id, d, u, "none", "none")
  \/ \E id \in InterviewIds, u \in Users : deleteInterview(id, u)

PatchSpec == Init /\ [][PatchNext]_vars

----------------------------------------------------------------------------
(* Requests served one at a time: creates with and without a duration, and  *)
(* patches that carry one                                                   *)

DurationInputs == {0, 15, 20, 480, 495}

DurationCreateInputs ==
  {[BaseInput EXCEPT !.candidateId = c, !.candidateName = FullName(c),
                     !.type = t, !.duration = Missing] :
     c \in Candidates, t \in INTERVIEW_TYPES}
  \cup
  {[BaseInput EXCEPT !.duration = n] : n \in DurationInputs}

DurationPatchInputs ==
  {[EmptyInput EXCEPT !.duration = 20], [EmptyInput EXCEPT !.type = "final"]}

DurationNext ==
  \/ \E op \in {"create", "update", "delete"}, reachable \in BOOLEAN :
       initialize(op, reachable)
  \/ \E d \in DurationCreateInputs, u \in Users : createInterview(d, u, "none", "none")
  \/ \E id \in InterviewIds, d \in DurationPatchInputs, u \in Users :
       updateInterview(id, d, u, "none", "none")
  \/ \E id \in InterviewIds, u \in Users : deleteInterview(id, u)

DurationSpec == Init /\ [][DurationNext]_vars

----------------------------------------------------------------------------
(* Requests served one at a time while the clock advances *)

MaxTicks == 2

\* A minute passes between two requests.
Tick ==
  /\ \E start \in NowValues : now < start + MaxTicks
  /\ now' = now + 1
  /\ UNCHANGED <<store, candidates, jobs, initialized, tz, resp, inflight>>

ClockCreateInputs ==
  {[BaseInput EXCEPT !.candidateId = c, !.candidateName = FullName(c)] : c \in Candidates}

ClockPatchInputs ==
  {[EmptyInput EXCEPT !.status = "completed"],
   [EmptyInput EXCEPT !.date = 21, !.time = Moved]}

ClockNext ==
  \/ \E op \in {"create", "update", "delete"}, reachable \in BOOLEAN :
       initialize(op, reachable)
  \/ \E d \in ClockCreateInputs, u \in Users : createInterview(d, u, "none", "none")
  \/ \E id \in InterviewIds, d \in ClockPatchInputs, u \in Users :
       updateInterview(id, d, u, "none", "none")
  \/ \E id \in InterviewIds, u \in Users : deleteInterview(id, u)
  \/ Tick

ClockSpec == Init /\ [][ClockNext]_vars

----------------------------------------------------------------------------
(* Requests served one at a time: the day's statistics over interviews      *)
(* that are created, patched and deleted                                    *)

StatsCreateInputs ==
  {BaseInput,
   [BaseInput EXCEPT !.candidateId = "c2", !.candidateName = FullName("c2"),
                     !.type = "screening",
                     !.interviewers = <<"Jane Davis", "Jane Smith">>],
   [BaseInput EXCEPT !.candidateId = "c2", !.candidateName = FullName("c2"),
                     !.date = 22, !.interviewers = <<"Cher">>]}

StatsPatchInputs ==
  {[EmptyInput EXCEPT !.status = s] : s \in {"completed", "cancelled"}}
  \cup
  {[EmptyInput EXCEPT !.type = "panel"]}

StatsDateInputs == {ParseDateOnly(21), ParseDateOnly(22)}

StatsNext ==
  \/ \E op \in {"create", "update", "delete", "stats"}, reachable \in BOOLEAN :
       initialize(op, reachable)
  \/ \E d \in StatsCreateInputs, u \in Users : createInterview(d, u, "none", "none")
  \/ \E id \in InterviewIds, d \in StatsPatchInputs, u \in Users :
       updateInterview(id, d, u, "none", "none")
  \/ \E id \in InterviewIds, u \in Users : deleteInterview(id, u)
  \/ \E date \in StatsDateInputs : getInterviewStats(date)

StatsSpec == Init /\ [][StatsNext]_vars

----------------------------------------------------------------------------
(* validateDateTimeConstraints applied on its own to dates around today and *)
(* times around the business hours and around the current time              *)

DateTimeDates == {19, 20, 21, 22, Missing}

DateTimeTimes ==
  {7 * 60 + 59, 8 * 60, 9 * 60 + 15, 10 * 60 + 15, 10 * 60 + 16,
   18 * 60, 18 * 60 + 1, Malformed}

DateTimeInit ==
  /\ store = <<>>
  /\ candidates = Candidates
  /\ jobs = Jobs
  /\ initialized = FALSE
  /\ tz \in TZOffsets
  /\ now \in NowValues
  /\ resp = NoResponse
  /\ \E date \in DateTimeDates, time \in DateTimeTimes :
       inflight = [p \in Procs |->
                     [IdleRequest EXCEPT !.data = [EmptyInput EXCEPT !.date = date,
                                                                     !.time = time]]]

\* One call of validateDateTimeConstraints: "messages" holds the field of every
\* entry of the thrown ValidationError's errors array, "resolved" the arguments.
validateDateTime(p) ==
  LET date == inflight[p].data.date
      time == inflight[p].data.time
      errors == validateDateTimeConstraints(date, time)
      resolved == [id |-> NoId, date |-> date, time |-> time]
  IN  /\ resp' = IF errors # {}
                   THEN [Error("datetime", resolved, "VALIDATION_ERROR", 400, "")
                           EXCEPT !.messages = errors]
                   ELSE Ok("datetime", resolved, <<>>)
      /\ UNCHANGED <<store, candidates, jobs, initialized, tz, now, inflight>>

DateTimeNext == \E p \in Procs : validateDateTime(p)

DateTimeSpec == DateTimeInit /\ [][DateTimeNext]_vars

----------------------------------------------------------------------------
(* generateInterviewerInitials on names spelled out character by character  *)

MaxNameLen == 4

\* String.prototype.trim on a sequence of characters
RECURSIVE TrimText(_)
TrimText(text) ==
  IF text = <<>> THEN <<>>
  ELSE IF Head(text) = " " THEN TrimText(Tail(text))
  ELSE IF text[Len(text)] = " " THEN TrimText(SubSeq(text, 1, Len(text) - 1))
  ELSE text

\* String.prototype.split(' '): the pieces between single spaces, empty ones kept
RECURSIVE SplitOnSpace(_)
SplitOnSpace(text) ==
  IF \A i \in DOMAIN text : text[i] # " " THEN <<text>>
  ELSE LET i == CHOOSE k \in DOMAIN text :
                  text[k] = " " /\ \A l \in 1 .. k - 1 : text[l] # " "
       IN  <<SubSeq(text, 1, i - 1)>> \o SplitOnSpace(SubSeq(text, i + 1, Len(text)))

\* Array.prototype.filter(Boolean) over pieces of text
RECURSIVE FilterNonEmptyText(_)
FilterNonEmptyText(parts) ==
  IF parts = <<>> THEN <<>>
  ELSE IF Head(parts) = <<>> THEN FilterNonEmptyText(Tail(parts))
       ELSE <<Head(parts)>> \o FilterNonEmptyText(Tail(parts))

\* String.prototype.toUpperCase on one character
ToUpperCase(c) ==
  CASE c = "j" -> "J"
    [] c = "d" -> "D"
    [] OTHER   -> c

\* Variant: the second part taken in place of the last one.
InitialsOfName_FirstTwo(name) ==
  LET parts == FilterNonEmptyText(SplitOnSpace(TrimText(name)))
  IN  IF Len(parts) = 0 THEN ""
      ELSE IF Len(parts) = 1 THEN ToUpperCase(parts[1][1])
      ELSE ToUpperCase(parts[1][1]) \o ToUpperCase(parts[2][1])

\* The arrow function mapped over the names (lines 1621-1626)
InitialsOfName(name) ==
  LET parts == FilterNonEmptyText(SplitOnSpace(TrimText(name)))
  IN  IF Len(parts) = 0 THEN ""
      ELSE IF Len(parts) = 1 THEN ToUpperCase(parts[1][1])
      ELSE ToUpperCase(parts[1][1]) \o ToUpperCase(parts[Len(parts)][1])

\* A null or undefined argument
NoNames == << <<"undefined">> >>

generateInterviewerInitialsOfTexts(interviewers) ==
  IF interviewers = NoNames THEN <<>>
  ELSE [i \in DOMAIN interviewers |-> InitialsOfName(interviewers[i])]

NameAlphabet == {"j", "D", " "}

\* Every text of up to MaxNameLen characters, and two longer names
NameTexts ==
  UNION {[1 .. n -> NameAlphabet] : n \in 0 .. MaxNameLen}
  \cup {<<"d", " ", "j", " ", "D">>, <<" ", "d", " ", " ", "j", "D", " ">>}

InitialsInputs ==
  {NoNames, <<>>}
  \cup {<<n>> : n \in NameTexts}
  \cup {<<n, m>> : n \in NameTexts, m \in {<<>>, <<"d">>, <<"d", " ", "j", " ", "D">>}}

InitialsInit ==
  /\ store = <<>>
  /\ candidates = Candidates
  /\ jobs = Jobs
  /\ initialized = FALSE
  /\ tz \in TZOffsets
  /\ now \in NowValues
  /\ resp = NoResponse
  /\ \E names \in InitialsInputs :
       inflight = [p \in Procs |-> [IdleRequest EXCEPT !.existing = names]]

\* One call of generateInterviewerInitials on the names the request holds
generateInitials(p) ==
  LET interviewers == inflight[p].existing
  IN  /\ resp' = Ok("initials", [id |-> NoId, names |-> interviewers],
                    generateInterviewerInitialsOfTexts(interviewers))
      /\ UNCHANGED <<store, candidates, jobs, initialized, tz, now, inflight>>

InitialsNext == \E p \in Procs : generateInitials(p)

InitialsSpec == InitialsInit /\ [][InitialsNext]_vars

----------------------------------------------------------------------------
(* Create requests in flight together, refused and accepted ones alike *)

OrderNext ==
  \/ \E op \in {"create", "delete"}, reachable \in BOOLEAN : initialize(op, reachable)
  \/ \E p \in Procs, r \in CreateRequests, u \in Users :
       CreateBegin(p, r[1], u, r[2][1], r[2][2])
  \/ \E p \in Procs : CreateInsert(p)
  \/ \E id \in InterviewIds, u \in Users : deleteInterview(id, u)

OrderSpec == Init /\ [][OrderNext]_vars

----------------------------------------------------------------------------
(* One update request at a time, in its steps, over interviews with         *)
(* different meeting details                                                *)

MergeCreateInputs ==
  {BaseInput,
   [BaseInput EXCEPT !.candidateId = "c2", !.candidateName = FullName("c2"),
                     !.meetingType = "in-person", !.location = "Room 1",
                     !.meetingLink = "https://meet.example/a"]}

MergePatchInputs ==
  {[EmptyInput EXCEPT !.meetingType = "phone"],
   [EmptyInput EXCEPT !.location = "Room 2", !.notes = "moved"],
   [EmptyInput EXCEPT !.meetingLink = "https://meet.example/b"],
   [EmptyInput EXCEPT !.status = "completed", !.duration = 45]}

\* The one process that issues the updates
Updater == "p1"

MergeNext ==
  \/ \E op \in {"create", "update"}, reachable \in BOOLEAN :
       initialize(op, reachable)
  \/ \E d \in MergeCreateInputs, u \in Users : createInterview(d, u, "none", "none")
  \/ \E id \in InterviewIds, d \in MergePatchInputs, u \in Users :
       UpdateFetch(Updater, id, d, u)
  \/ UpdateCheck(Updater)
  \/ UpdateWrite(Updater)

MergeSpec == Init /\ [][MergeNext]_vars

----------------------------------------------------------------------------
(* initialize with the outcome of the index creation *)

\* What collection.createIndex can answer: done, error code 85 (the index
\* already exists), or another error.
IndexOutcomes == {"created", "exists", "failed"}

\* initializeInterviewsCollection: "throw" when it throws, else "done".  The
\* inner catch swallows every createIndex error (it only warns when the code
\* is not 85); the outer catch rethrows the failure to get the collection.
initializeInterviewsCollection(reachable, indexOutcome) ==
  IF ~reachable THEN "throw" ELSE "done"

\* The initialize() a request of kind op, issued by p, awaits first while the
\* service is not initialized.  The request keeps in "resolved" what the store
\* answered.
initializeService(p, op, reachable, indexOutcome) ==
  /\ ~initialized
  /\ inflight[p].pc = "idle"
  /\ IF initializeInterviewsCollection(reachable, indexOutcome) = "done"
       THEN initialized' = TRUE /\ resp' = resp
       ELSE initialized' = FALSE /\ resp' = InitializationError(op)
  /\ inflight' = [inflight EXCEPT ![p].resolved =
                    [id |-> NoId, op |-> op, reachable |-> reachable,
                     indexOutcome |-> indexOutcome]]
  /\ UNCHANGED <<store, candidates, jobs, tz, now>>

InitNext ==
  \/ \E p \in Procs, op \in {"create", "get"},
        reachable \in BOOLEAN, indexOutcome \in IndexOutcomes :
       initializeService(p, op, reachable, indexOutcome)
  \/ \E c \in Candidates, u \in Users :
       createInterview([BaseInput EXCEPT !.candidateId = c,
                                         !.candidateName = FullName(c)],
                       u, "none", "none")
  \/ \E id \in InterviewIds : getInterviewById(id, "none", "none")

InitSpec == Init /\ [][InitNext]_vars

----------------------------------------------------------------------------
(* One update request at a time, in its steps, with patches that carry a    *)
(* date, a time, or both                                                    *)

RescheduleCreateInputs ==
  {[BaseInput EXCEPT !.time = t] : t \in {10 * 60, 10 * 60 + 31}}

ReschedulePatchInputs ==
  {[EmptyInput EXCEPT !.time = Moved],
   [EmptyInput EXCEPT !.date = 22],
   [EmptyInput EXCEPT !.date = 22, !.time = Moved],
   [EmptyInput EXCEPT !.time = Moved, !.candidateId = "c1"],
   [EmptyInput EXCEPT !.date = 22, !.candidateId = "c1"]}

RescheduleNext ==
  \/ \E op \in {"create", "update"}, reachable \in BOOLEAN :
       initialize(op, reachable)
  \/ \E d \in RescheduleCreateInputs, u \in Users :
       createInterview(d, u, "none", "none")
  \/ \E id \in InterviewIds, d \in ReschedulePatchInputs, u \in Users :
       UpdateFetch(Updater, id, d, u)
  \/ UpdateCheck(Updater)
  \/ UpdateWrite(Updater)

RescheduleSpec == Init /\ [][RescheduleNext]_vars

----------------------------------------------------------------------------
(* Properties *)

Live(st) == {i \in DOMAIN st : st[i].metadata.isActive}

\* An interview that blocks its candidate's slot
Booked(doc) == doc.metadata.isActive /\ doc.status \in {"scheduled", "rescheduled"}

Apart(a, b) == IF a >= b THEN a - b ELSE b - a

\* The booked interviews of a candidate within the window around an instant
Near(st, candidateId, at) ==
  {i \in DOMAIN st : /\ Booked(st[i])
                     /\ st[i].candidateId = candidateId
                     /\ Apart(st[i].scheduledDate, at) <= 30}

\* C1: with requests served one at a time, no two active interviews of one
\* candidate with status scheduled or rescheduled are stored within 30 minutes
\* of each other.
C1_NoDoubleBooking ==
  \A i, j \in DOMAIN store :
    (/\ i # j
     /\ Booked(store[i])
     /\ Booked(store[j])
     /\ store[i].candidateId = store[j].candidateId)
    => Apart(store[i].scheduledDate, store[j].scheduledDate) > 30

\* C2: a create that reaches the conflict check is answered SCHEDULE_CONFLICT
\* (409), leaving the store as it was, exactly when the candidate has a booked
\* interview within 30 minutes (30 included) of the requested instant; with every
\* booked interview of the candidate 31 minutes or more away it succeeds and
\* inserts one document.
C2_CreateConflictWindow ==
  [][(/\ resp'.op = "create"
      /\ resp' # resp
      /\ resp'.code \notin {"VALIDATION_ERROR", "INVALID_REFERENCES",
                            "INITIALIZATION_ERROR"})
     => IF Near(store, resp'.resolved.candidateId, resp'.resolved.at) # {}
          THEN /\ resp'.code = "SCHEDULE_CONFLICT"
               /\ resp'.statusCode = 409
               /\ store' = store
          ELSE /\ resp'.code = "OK"
               /\ Len(store') = Len(store) + 1
               /\ Booked(store'[Len(store')]) = (resp'.value[1].status = "scheduled")
               /\ store'[Len(store')].candidateId = resp'.resolved.candidateId]_vars

\* Two booked interviews 31 minutes apart were both accepted, and a third
\* request exactly 30 minutes after the first is answered SCHEDULE_CONFLICT.
C2_RejectedAtThirtyMinutes ==
  /\ Len(store) = 2
  /\ Booked(store[1]) /\ Booked(store[2])
  /\ store[1].candidateId = store[2].candidateId
  /\ Apart(store[1].scheduledDate, store[2].scheduledDate) = 31
  /\ resp.op = "create"
  /\ resp.code = "SCHEDULE_CONFLICT"
  /\ resp.resolved.candidateId = store[1].candidateId
  /\ resp.resolved.at - store[1].scheduledDate = 30

\* C3: a create that has passed the conflict check inserts its document as a
\* booked interview whatever has been stored since the check, so two overlapping
\* creates that both passed the check are both persisted.
C3_InsertAfterCheckIsUnconditional ==
  [][\A p \in Procs :
       (inflight[p].pc = "insert" /\ inflight'[p].pc # "insert")
       => /\ store' = InsertOne(store, inflight[p].data, inflight[p].userId)
          /\ Booked(store'[Len(store')])
          /\ resp'.op = "create"
          /\ resp'.code = "OK"]_vars

\* Two booked interviews of one candidate one minute apart, the second inserted
\* by a request whose conflict check ran while the collection was still empty.
C3_DoubleBooked ==
  /\ Len(store) = 2
  /\ Booked(store[1]) /\ Booked(store[2])
  /\ store[1].candidateId = store[2].candidateId
  /\ Apart(store[1].scheduledDate, store[2].scheduledDate) = 1
  /\ resp.op = "create"
  /\ resp.code = "OK"
  /\ resp.resolved.seen = 0
  /\ resp.value[1].id = 2

\* C4: in any interleaving, a delete succeeds only on an interview that is
\* active, which it leaves inactive; on one already deleted or never stored it
\* is answered NOT_FOUND (404) and changes nothing; and an inactive interview
\* never becomes active again, so no id is deleted successfully twice.
C4_DeleteSucceedsOnce ==
  [][/\ (resp'.op = "delete" /\ resp' # resp)
        => IF resp'.resolved.id \in Live(store)
             THEN /\ resp'.code = "OK"
                  /\ resp'.value = <<TRUE>>
                  /\ resp'.resolved.id \notin Live(store')
             ELSE /\ resp'.code # "OK"
                  /\ (initialized /\ InterviewIdIsValid(resp'.resolved.id)
                        => resp'.code = "NOT_FOUND" /\ resp'.statusCode = 404)
                  /\ store' = store
     /\ \A i \in DOMAIN store : i \notin Live(store) => i \notin Live(store')]_vars

\* A delete of an interview that was deleted before is answered NOT_FOUND.
C4_SecondDeleteRefused ==
  /\ resp.op = "delete"
  /\ resp.code = "NOT_FOUND"
  /\ resp.resolved.id \in DOMAIN store
  /\ resp.resolved.id \notin Live(store)

\* C5: an interview that was deleted is ignored by every read: get answers null
\* for its id, the listings (all, by date, by range) leave it out, the statistics
\* neither list nor count it, and the conflict check at its own candidate and
\* instant reports a conflict only when a live booked interview is in the window.
C5_DeletedIsIgnored ==
  [][\A id \in DOMAIN store : id \notin Live(store) =>
       /\ (resp'.op = "get" /\ resp' # resp /\ resp'.resolved.id = id)
            => (~initialized \/ (resp'.code = "OK" /\ resp'.value = <<>>))
       /\ (resp'.op \in {"list", "range", "date"} /\ resp' # resp /\ resp'.code = "OK")
            => \A k \in DOMAIN resp'.value : resp'.value[k].id # id
       /\ (resp'.op = "stats" /\ resp' # resp /\ resp'.code = "OK")
            => /\ \A k \in DOMAIN resp'.value[1].interviews :
                    resp'.value[1].interviews[k].id # id
               /\ resp'.value[1].totalInterviews = Len(resp'.value[1].interviews)
       /\ hasScheduleConflict(store, store[id].candidateId, store[id].scheduledDate, NoId)
            => \E j \in Live(store) :
                 j \in Near(store, store[id].candidateId, store[id].scheduledDate)]_vars

\* One interview deleted, another live, and a listing that shows the live one.
C5_ListedWithoutDeleted ==
  /\ Len(store) = 2
  /\ Cardinality(Live(store)) = 1
  /\ resp.op = "list"
  /\ resp.code = "OK"
  /\ Len(resp.value) = 1
  /\ resp.value[1].id \in Live(store)

\* C6: no step removes a document or changes its _id; a delete changes nothing
\* of a document but metadata.isActive (to false), deletedAt and deletedBy; and
\* an inactive document is never changed again.
C6_SoftDeleteOnly ==
  [][/\ Len(store') >= Len(store)
     /\ \A i \in DOMAIN store :
          /\ store'[i]._id = store[i]._id
          /\ (i \notin Live(store) => store'[i] = store[i])
          /\ (i \in Live(store) /\ i \notin Live(store'))
               => /\ resp'.op = "delete"
                  /\ resp'.code = "OK"
                  /\ store'[i].metadata.deletedAt = now
                  /\ store'[i].metadata.deletedBy \in Users \cup {Null}
                  /\ store'[i] =
                       [store[i] EXCEPT
                          !.metadata.isActive = FALSE,
                          !.metadata.deletedAt = store'[i].metadata.deletedAt,
                          !.metadata.deletedBy = store'[i].metadata.deletedBy]]_vars

\* An update addressed to a deleted interview was answered NOT_FOUND.
C6_UpdateOfDeletedRefused ==
  /\ resp.op = "update"
  /\ resp.code = "NOT_FOUND"
  /\ resp.resolved.id \in DOMAIN store
  /\ resp.resolved.id \notin Live(store)

\* C7: a create answered with a validation, referential-integrity or
\* schedule-conflict error leaves the store as it was.
C7_FailedCreateInsertsNothing ==
  [][(/\ resp'.op = "create"
      /\ resp' # resp
      /\ resp'.code \in {"VALIDATION_ERROR", "INVALID_REFERENCES", "SCHEDULE_CONFLICT"})
     => store' = store]_vars

\* A create was refused for a dangling reference while an interview was stored.
C7_RefusedOverStoredInterview ==
  /\ Len(store) = 1
  /\ resp.op = "create"
  /\ resp.code = "INVALID_REFERENCES"

\* C8: a create whose candidate or job lookup answers not-found fails with
\* INVALID_REFERENCES (400), both lookups having been made, and when both answer
\* not-found the error carries both missing-reference messages.
C8_BothMissingReferencesReported ==
  (/\ resp.op = "create"
   /\ resp.code # "INITIALIZATION_ERROR"
   /\ resp.resolved.candidate # "skipped"
   /\ (resp.resolved.candidate = "null" \/ resp.resolved.job = "null"))
  => /\ resp.code = "INVALID_REFERENCES"
     /\ resp.statusCode = 400
     /\ resp.resolved.job # "skipped"
     /\ (resp.resolved.candidate = "null" /\ resp.resolved.job = "null")
          => {"Referenced candidate does not exist",
              "Referenced job does not exist"} \subseteq resp.messages

\* C9: a get of an interview whose candidate the lookup no longer finds answers
\* with candidateDeleted = true and currentCandidateInfo = null, its other fields
\* being those of the stored record.
C9_DeletedCandidateFlagged ==
  [][(/\ resp'.op = "get"
      /\ resp' # resp
      /\ resp'.code = "OK"
      /\ resp'.value # <<>>
      /\ resp'.resolved.cf = "none"
      /\ resp'.value[1].candidateId \notin candidates)
     => /\ "candidateDeleted" \in DOMAIN resp'.value[1]
        /\ "currentCandidateInfo" \in DOMAIN resp'.value[1]
        /\ resp'.value[1].candidateDeleted = TRUE
        /\ resp'.value[1].currentCandidateInfo = <<>>
        /\ \A f \in DOMAIN formatInterviewForDisplay(store[resp'.resolved.id]) :
             resp'.value[1][f] = formatInterviewForDisplay(store[resp'.resolved.id])[f]]_vars

\* C10: whatever the enrichment lookups answer (found, not-found or a throw), a
\* get of a live interview answers with the stored interview, a listing answers
\* with every live interview its filters select, each as stored, and neither
\* changes the store.
C10_ReadsSurviveEnrichment ==
  [][/\ (/\ resp'.op = "get"
         /\ resp' # resp
         /\ initialized
         /\ resp'.resolved.id \in Live(store))
        => /\ resp'.code = "OK"
           /\ resp'.value = <<formatInterviewForDisplay(store[resp'.resolved.id])>>
           /\ resp'.value[1].candidateName = store[resp'.resolved.id].candidateName
           /\ resp'.value[1].jobTitle = store[resp'.resolved.id].jobTitle
           /\ store' = store
     /\ (resp'.op = "list" /\ resp' # resp /\ initialized)
        => /\ resp'.code = "OK"
           /\ Len(resp'.value) =
                Cardinality({i \in Live(store) :
                               MatchesFilters(store[i], resp'.resolved.filters)})
           /\ \A k \in DOMAIN resp'.value :
                resp'.value[k] = formatInterviewForDisplay(store[resp'.value[k].id])
           /\ store' = store]_vars

\* A get answered with an interview whose candidate is gone, while the job
\* lookup threw.
C10_ReadWithStaleCandidateAndFailingJobLookup ==
  /\ resp.op = "get"
  /\ resp.code = "OK"
  /\ resp.value # <<>>
  /\ resp.resolved.jf = "throw"
  /\ resp.value[1].candidateId \notin candidates

\* The fields of every rule an input breaks, over all the facets of the validation
ViolatedRules(d) ==
  validateInterviewBasicInfo(d)
  \cup validateDateTimeConstraints(d.date, d.time)
  \cup validateInterviewDuration(d.duration, d.type)
  \cup validateInterviewers(d.interviewers)
  \cup validateMeetingDetails([type |-> d.meetingType, link |-> d.meetingLink,
                               location |-> d.location])
  \cup validateInterviewNotes(d.notes)
  \cup validateInterviewStatus(d.status)

\* C11: validateInterviewData on an input that breaks N independent rules, of
\* whatever facets, raises one validation error that lists at least N distinct
\* field violations, not only those of the first failing facet.
C11_EveryViolationListed ==
  resp.op = "validate" =>
    Cardinality(resp.messages) >= Cardinality(ViolatedRules(resp.resolved.input))

\* C12: after any sequence of createInterview and updateInterview calls, the
\* status of every stored interview is one of scheduled, completed, cancelled,
\* rescheduled: no create and no update leaves another status in the store.
C12_StoredStatusIsRecognized ==
  \A i \in DOMAIN store : store[i].status \in INTERVIEW_STATUS

\* C14: after any sequence of createInterview and updateInterview calls, the
\* interviewers list of every stored interview has at most 10 entries, no empty
\* entry, and no two entries that are equal after trimming and lower-casing.
C14_StoredInterviewersAreValid ==
  \A i \in DOMAIN store :
    LET interviewers == store[i].interviewers
    IN  /\ Len(interviewers) <= 10
        /\ \A k \in DOMAIN interviewers : TextLength(Trim(interviewers[k])) >= 1
        /\ \A k, l \in DOMAIN interviewers :
             NameKey(interviewers[k]) = NameKey(interviewers[l]) => k = l

\* C13: every interview stored and returned by a successful createInterview has
\* status scheduled, whatever the input carries.
C13_CreatedAsScheduled ==
  (resp.op = "create" /\ resp.code = "OK" /\ resp.value # <<>>) =>
     /\ resp.value[1].status = "scheduled"
     /\ store[resp.value[1].id].status = "scheduled"

\* C15: after any sequence of service operations, every stored interview has an
\* integer duration that is a multiple of 15 between 15 and 480; and a create
\* whose input has no duration stores the default duration of the interview
\* type (screening 30, technical 60, cultural 45, final 90).
C15_StoredDurationIsValid ==
  [][/\ \A i \in DOMAIN store' :
          /\ store'[i].duration \in 15 .. 480
          /\ store'[i].duration % 15 = 0
     /\ (resp'.op = "create" /\ resp' # resp /\ resp'.code = "OK"
           /\ resp'.resolved.duration = Missing)
        => LET created == store'[Len(store')]
           IN  /\ Len(store') = Len(store) + 1
               /\ created.type \in INTERVIEW_TYPES
               /\ created.duration =
                    (CASE created.type = "screening" -> 30
                       [] created.type = "technical" -> 60
                       [] created.type = "cultural"  -> 45
                       [] created.type = "final"     -> 90)]_vars

\* A cultural interview created without a duration next to one created with the
\* longest duration allowed, after a patch that carried a duration of 20.
C15_DefaultBesideLongest ==
  /\ Len(store) = 2
  /\ store[1].duration = 480
  /\ store[2].type = "cultural" /\ store[2].duration = 45
  /\ resp.op = "update" /\ resp.code = "OK" /\ resp.resolved.id = 2
  /\ resp.value[1].duration = <<45, "minutes">>

\* C16: every successful mutation of an interview, by updateInterview and by
\* deleteInterview alike, sets metadata.updatedAt to the time of that mutation:
\* updatedAt of a record is never earlier than its latest change, its deletedAt
\* included.
C16_UpdatedAtCoversEveryChange ==
  \A i \in DOMAIN store :
    /\ store[i].metadata.updatedAt >= store[i].metadata.createdAt
    /\ store[i].metadata.deletedAt # NoInstant
         => store[i].metadata.updatedAt >= store[i].metadata.deletedAt

\* C17: for every valid date, time and duration d and every time-zone offset of
\* the server, the interview a successful createInterview returns has the date
\* and the time of the input and the duration "<d> minutes".
C17_CreateReturnsRequestedSlot ==
  (resp.op = "create" /\ resp.code = "OK" /\ resp.value # <<>>) =>
     /\ resp.value[1].date = LocalDay(resp.resolved.at)
     /\ resp.value[1].time = LocalMinute(resp.resolved.at)
     /\ resp.resolved.duration # Missing
          => resp.value[1].duration = <<resp.resolved.duration, "minutes">>

\* The interviews getInterviewStats(date) is to count: active, on the local
\* calendar day of date, with status scheduled or rescheduled
Counted(st, date) ==
  {i \in DOMAIN st : /\ Booked(st[i])
                     /\ LocalDay(st[i].scheduledDate) = LocalDay(date)}

\* C18: getInterviewStats(d).totalInterviews is the number of stored interviews
\* that are active, scheduled within calendar day d, with status scheduled or
\* rescheduled: an interview updated to completed or cancelled is not counted.
C18_TotalCountsBookedOfTheDay ==
  [][(resp'.op = "stats" /\ resp' # resp /\ resp'.code = "OK")
       => resp'.value[1].totalInterviews =
            Cardinality(Counted(store, resp'.resolved.date))]_vars

\* Statistics of a day with two active interviews, one of them completed.
C18_CompletedLeftOut ==
  /\ resp.op = "stats" /\ resp.code = "OK"
  /\ resp.value[1].totalInterviews = 1
  /\ \E i, j \in Live(store) :
       /\ i # j
       /\ store[i].status = "completed"
       /\ LocalDay(store[i].scheduledDate) = LocalDay(resp.resolved.date)
       /\ LocalDay(store[j].scheduledDate) = LocalDay(resp.resolved.date)

\* C19: in the result of getInterviewStats, the keys of interviewsByType are all
\* among screening, technical, cultural and final: a counted interview with an
\* unrecognized type is left out of the histogram, whose values sum to the
\* number of counted interviews that have a recognized type.
C19_HistogramOfRecognizedTypes ==
  (resp.op = "stats" /\ resp.code = "OK") =>
     LET byType == resp.value[1].interviewsByType
         interviews == resp.value[1].interviews
     IN  /\ DOMAIN byType \subseteq INTERVIEW_TYPES
         /\ \A t \in DOMAIN byType :
              byType[t] = Cardinality({k \in DOMAIN interviews : interviews[k].type = t})
         /\ \A k \in DOMAIN interviews :
              interviews[k].type \in INTERVIEW_TYPES => interviews[k].type \in DOMAIN byType

\* C20: getInterviewStats(d).interviewerInitials is a set of initials: it has no
\* repeated entry, and it holds the initials of every interviewer name listed
\* on an interview counted for day d.
C20_InitialsAreASet ==
  (resp.op = "stats" /\ resp.code = "OK") =>
     LET initials == resp.value[1].interviewerInitials
         interviews == resp.value[1].interviews
     IN  /\ \A k, l \in DOMAIN initials : initials[k] = initials[l] => k = l
         /\ \A k \in DOMAIN interviews : \A n \in DOMAIN interviews[k].interviewers :
              Initials(interviews[k].interviewers[n]) \in SeqToSet(initials)

\* C21: on a date that passes the date rules, with the combined instant in the
\* future, validateDateTimeConstraints accepts a well-formed time t exactly when
\* 08:00 <= t <= 18:00: 07:59 and 18:01 are rejected, 08:00 and 18:00 accepted.
C21_BusinessHoursInclusive ==
  (resp.op = "datetime" /\ resp.resolved.time # Malformed) =>
     /\ "time" \in resp.messages
          <=> ~(resp.resolved.time >= 480 /\ resp.resolved.time <= 1080)
     /\ ("date" \notin resp.messages /\ "datetime" \notin resp.messages)
          => (resp.code = "OK"
                <=> (resp.resolved.time >= 480 /\ resp.resolved.time <= 1080))

\* 18:00 on a later day, accepted.
C21_SixOClockAccepted ==
  /\ resp.op = "datetime" /\ resp.code = "OK"
  /\ resp.resolved.time = 1080
  /\ resp.resolved.date = 22

\* C27: validateDateTimeConstraints rejects every well-formed (date, time) whose
\* instant is not strictly later than the time of validation, today's date with
\* a time equal to or earlier than the current time included, although today's
\* date passes the date-only rule; and it accepts today's date with a later
\* time inside business hours.
C27_TodayOnlyLaterThanNow ==
  (resp.op = "datetime" /\ resp.resolved.date # Missing
     /\ resp.resolved.time # Malformed) =>
     LET date == resp.resolved.date
         time == resp.resolved.time
     IN  /\ ParseLocalDateTime(date, time) <= now => resp.code = "VALIDATION_ERROR"
         /\ date = LocalDay(now) => "date" \notin resp.messages
         /\ (date = LocalDay(now) /\ time > LocalMinute(now)
               /\ time >= 480 /\ time <= 1080) => resp.code = "OK"

\* The positions at which a part of a name starts: a character other than a
\* space that opens the name or follows a space
PartStarts(name) ==
  {i \in DOMAIN name : name[i] # " " /\ (i = 1 \/ name[i - 1] = " ")}

UpperCased(c) == IF c = "j" THEN "J" ELSE IF c = "d" THEN "D" ELSE c

C23_UpdateChecksPatchedSlot ==
  [][(resp'.op = "update" /\ resp' # resp /\ resp'.code = "OK")
       => LET id == resp'.resolved.id
          IN  store'[id].scheduledDate # store[id].scheduledDate
                => Near(store, store[id].candidateId, store'[id].scheduledDate)
                     \subseteq {id}]_vars

\* C24: within one createInterview request the insert is issued only after the
\* request's validation, reference lookups and conflict check have completed
\* and the check has found no conflict: a request reaches its insert only from
\* a check that passed, a refused request inserts nothing, and every insert is
\* the insert of a request that was checked.
C24_InsertOnlyAfterOwnCheck ==
  [][/\ \A p \in Procs :
          (inflight'[p].pc = "insert" /\ inflight[p].pc # "insert")
            => LET r == inflight'[p]
               IN  /\ validateInterviewData(r.data) = {}
                   /\ r.resolved.candidate = "found" /\ r.resolved.job = "found"
                   /\ r.resolved.seen = Len(store)
                   /\ ~hasScheduleConflict(store, r.resolved.candidateId,
                                           r.resolved.at, NoId)
                   /\ store' = store
     /\ (resp'.op = "create" /\ resp' # resp /\ resp'.code # "OK")
          => store' = store /\ inflight' = inflight
     /\ Len(store') > Len(store)
          => \E p \in Procs :
               /\ inflight[p].pc = "insert" /\ inflight'[p].pc = "idle"
               /\ store' = Append(store, store'[Len(store')])
               /\ store'[Len(store')].candidateId = inflight[p].resolved.candidateId
               /\ store'[Len(store')].scheduledDate
                    = combineDateTime(inflight[p].data.date, inflight[p].data.time)]_vars

\* A second interview inserted by a request whose check had seen the first.
C24_InsertedAfterCheckOverOne ==
  /\ resp.op = "create" /\ resp.code = "OK"
  /\ Len(store) = 2
  /\ resp.resolved.seen = 1
  /\ resp.value[1].id = 2

\* The write of the update request in flight succeeds in this step
UpdateWritten ==
  /\ inflight[Updater].pc = "write"
  /\ inflight'[Updater].pc = "idle"
  /\ resp'.op = "update" /\ resp'.code = "OK"

C26_NamesDefaultFromReferences ==
  (/\ resp.op = "create"
   /\ "candidateName" \in DOMAIN resp.resolved
   /\ (resp.resolved.candidateName = Undefined \/ resp.resolved.jobTitle = Undefined))
    => /\ resp.code \in {"OK", "SCHEDULE_CONFLICT"}
       /\ resp.code = "OK" =>
            /\ resp.value[1].candidateName = FullName(resp.value[1].candidateId)
            /\ resp.value[1].jobTitle = JobRecord(resp.value[1].jobId).title
            /\ store[resp.value[1].id].candidateName = resp.value[1].candidateName
            /\ store[resp.value[1].id].jobTitle = resp.value[1].jobTitle

\* C28: InterviewService.initialize fails with INITIALIZATION_ERROR (500) when
\* the store is unreachable or when creating an index fails for a reason other
\* than the index existing already; an index-already-exists error is ignored;
\* after a failed initialize the service stays uninitialized.
C28_InitializeFailsOnIndexFailure ==
  [][\A p \in Procs :
       (inflight'[p].resolved # inflight[p].resolved
          /\ "indexOutcome" \in DOMAIN inflight'[p].resolved)
         => LET seen == inflight'[p].resolved
            IN  IF ~seen.reachable \/ seen.indexOutcome = "failed"
                  THEN /\ resp' = InitializationError(seen.op)
                       /\ resp'.statusCode = 500
                       /\ ~initialized'
                  ELSE initialized' /\ resp' = resp]_vars

\* C29: for every valid (date, time) and every time-zone offset of the server,
\* the instant createInterview passes to hasScheduleConflict is the
\* scheduledDate createInterviewDocument stores for the same input.
C29_CheckedAtStoredSlot ==
  (resp.op = "create" /\ resp.code = "OK" /\ resp.value # <<>>) =>
     store[resp.value[1].id].scheduledDate = resp.resolved.at

\* C30: updateInterview rewrites the stored scheduledDate only when the patch
\* carries both date and time; a patch with one of them leaves it unchanged,
\* while the conflict check of such a patch, when it runs, is made on the patch
\* value merged with the date or time of the interview as stored.
C30_SlotMovesOnlyWithBoth ==
  [][LET u == inflight[Updater].data
         id == inflight[Updater].id
         read == inflight[Updater].existing[1]
         merged == ParseLocalDateTime(IF u.date # Missing THEN u.date ELSE read.date,
                                      IF u.time # Missing THEN u.time ELSE read.time)
         refused == /\ inflight'[Updater].pc = "idle"
                    /\ resp' = ScheduleConflict(id)
     IN  /\ UpdateWritten =>
               store'[id].scheduledDate =
                 IF u.date # Missing /\ u.time # Missing
                   THEN ParseLocalDateTime(u.date, u.time)
                   ELSE store[id].scheduledDate
         /\ (inflight[Updater].pc = "check" /\ inflight'[Updater].pc # "check")
               => /\ store' = store
                  /\ IF (u.date # Missing \/ u.time # Missing) /\ u.candidateId # Undefined
                       THEN refused <=> Near(store, u.candidateId, merged) \ {id} # {}
                       ELSE ~refused]_vars

\* A patch with a time alone refused for the slot it would make with the stored
\* date, while the interview stays where it was, clear of the other one.
C30_RefusedOnMergedSlot ==
  /\ resp.op = "update" /\ resp.code = "SCHEDULE_CONFLICT"
  /\ Len(store) = 2
  /\ Apart(store[1].scheduledDate, store[2].scheduledDate) = 31
  /\ store[resp.resolved.id].metadata.updatedAt = store[resp.resolved.id].metadata.createdAt

====
